---- MODULE Spec2Model ----
(***************************************************************************)
(* Decision diagrams of shnarazk/ddir: the node arena, BDD reduce          *)
(* (src/src/bdd.rs), ZDD reduce / apply / compose (src/src/zdd.rs) and the *)
(* node helpers (src/src/node.rs).                                         *)
(*                                                                         *)
(* A Node is an Rc<Vertex>; equality and hash are pointer identity.  The   *)
(* model keeps every allocated vertex in `heap`; a node is its position in *)
(* the heap (its address), so two vertices with equal contents at two      *)
(* positions are two nodes.                                                *)
(***************************************************************************)
EXTENDS Integers, Sequences, FiniteSets, TLC

VARIABLES
    heap,     \* every vertex allocated so far; a node is an index into it
    nraw,     \* heap[1..nraw] are the raw vertices built by the fixture code
    bdd,      \* the BDD value: [graph, reduced], graph = 0 while there is none
    bdd2,     \* a second BDD value, the `other` operand of BDD apply
    zdd,      \* the ZDD value: [graph, reduced], graph = 0 while there is none
    zdd2,     \* a second ZDD value, the `other` operand of apply / compose
    res,      \* the ZDD value apply returned
    call,     \* the running satisfy_all: its call stack and its cache
    last,     \* what the last operation was, its operands and its outcome
    nops      \* number of operations performed on the diagrams

vars == <<heap, nraw, bdd, bdd2, zdd, zdd2, res, call, last, nops>>

\* ---------------------------------------------------------------- bounds
MaxNodes == 5      \* vertices the fixture code allocates
MaxVar == 2        \* variables are 1 .. MaxVar
MaxOps == 2        \* operations performed on one diagram value
MaxOperandNodes == 3   \* raw vertices under the operands of apply / compose, of two runs
MaxFrames == 3     \* frames the call stack holds before it is exhausted
MaxExportNodes == 3   \* nodes of a graph handed to write_as_gv
MaxLevelNodes == 4     \* raw vertices of a graph in which a child repeats a variable
MaxRawNodes == 65  \* vertices of a raw graph handed to the counting queries

\* ---------------------------------------------------------------- vertices
\* usize::MAX, the initial old_key of ZDD reduce.  It is only compared for
\* equality with ids, which never exceed the number of allocated vertices, so
\* the largest integer the checker holds stands for it.
UsizeMax == 2147483647

\* Vertex::Bool(b)
Bool(b) == [tag |-> "Bool", b |-> b, var_index |-> 0, low |-> 0, high |-> 0]
\* Vertex::Var { var_index, low, high }
Var(v, l, h) == [tag |-> "Var", b |-> FALSE, var_index |-> v, low |-> l, high |-> h]

\* Node::new_constant: allocates a new vertex; the node is its address.
new_constant(h, b) == [heap |-> Append(h, Bool(b)), node |-> Len(h) + 1]
\* Node::new_var
new_var(h, v, l, hi) == [heap |-> Append(h, Var(v, l, hi)), node |-> Len(h) + 1]

\* is_constant: Some(b) for a terminal, None for a decision vertex.
is_constant(h, n) == IF h[n].tag = "Bool" THEN <<h[n].b>> ELSE <<>>
b2u(b) == IF b THEN 1 ELSE 0

\* unified_key: 0/1 for a terminal, var_index + 2 for a decision vertex.
unified_key(h, n) == IF h[n].tag = "Bool" THEN b2u(h[n].b) ELSE h[n].var_index + 2

\* all_nodes: the set of nodes reachable from n, n included (a HashSet keyed
\* by address).
RECURSIVE all_nodes(_, _)
all_nodes(h, n) ==
    IF h[n].tag = "Bool" THEN {n}
    ELSE {n} \cup all_nodes(h, h[n].low) \cup all_nodes(h, h[n].high)

\* Mutant: every node allocated no later than the root is counted.
len_allocated(h, n) == n

\* Mutant: nodes of equal contents are counted once.
len_by_contents(h, n) == Cardinality({h[m] : m \in all_nodes(h, n)})

\* len
len(h, n) == Cardinality(all_nodes(h, n))

\* HashMap::insert
Put(f, k, v) == (k :> v) @@ f

\* ---------------------------------------------------------------- semantics
\* The value of the function of node n at the assignment x (the set of the
\* variables that are 1): follow high when the variable is 1, low otherwise.
RECURSIVE Eval(_, _, _)
Eval(h, n, x) ==
    IF h[n].tag = "Bool" THEN h[n].b
    ELSE IF h[n].var_index \in x THEN Eval(h, h[n].high, x) ELSE Eval(h, h[n].low, x)

\* The root-to-true-terminal paths of n, each read as the set of variables
\* whose high branch is taken.
RECURSIVE Paths(_, _)
Paths(h, n) ==
    IF h[n].tag = "Bool" THEN (IF h[n].b THEN {{}} ELSE {})
    ELSE Paths(h, h[n].low) \cup {s \cup {h[n].var_index} : s \in Paths(h, h[n].high)}

\* Variables strictly increase along every path from n.
StrictlyOrdered(h, n) ==
    \A m \in all_nodes(h, n) :
        h[m].tag = "Var" =>
            /\ (h[h[m].low].tag = "Var" => h[h[m].low].var_index > h[m].var_index)
            /\ (h[h[m].high].tag = "Var" => h[h[m].high].var_index > h[m].var_index)

\* Structural equality of the graphs under a and b.
RECURSIVE SameShape(_, _, _)
SameShape(h, a, b) ==
    /\ h[a].tag = h[b].tag
    /\ IF h[a].tag = "Bool" THEN h[a].b = h[b].b
       ELSE /\ h[a].var_index = h[b].var_index
            /\ SameShape(h, h[a].low, h[b].low)
            /\ SameShape(h, h[a].high, h[b].high)

\* Node-for-node isomorphism of two diagrams.
Isomorphic(h, a, b) == SameShape(h, a, b) /\ len(h, a) = len(h, b)

Assignments == SUBSET (1 .. MaxVar)

\* ---------------------------------------------------------------- orders
\* The iteration order of a HashSet is unspecified: any permutation.
RECURSIVE Perms(_)
Perms(S) ==
    IF S = {} THEN {<<>>}
    ELSE UNION {{Append(p, x) : p \in Perms(S \ {x})} : x \in S}

\* The stable order of a slice of at most 20 elements under
\* sort_unstable_by_key (insertion sort): by key (id(low), id(high)).
KeyLess(a, b) == a[1] < b[1] \/ (a[1] = b[1] /\ a[2] < b[2])

RECURSIVE InsertByKey(_, _)
InsertByKey(s, e) ==
    IF s = <<>> THEN <<e>>
    ELSE IF KeyLess(e[1], s[Len(s)][1]) THEN Append(InsertByKey(SubSeq(s, 1, Len(s) - 1), e), s[Len(s)])
    ELSE Append(s, e)

RECURSIVE SortByKey(_)
SortByKey(q) ==
    IF q = <<>> THEN <<>> ELSE InsertByKey(SortByKey(SubSeq(q, 1, Len(q) - 1)), q[Len(q)])

\* The per-level vectors `vlist` after the nodes of a HashSet have been pushed
\* onto them in iteration order: for every key, the nodes of that key in an
\* arbitrary order.  lev maps each pushed node to its key.
RECURSIVE VListsOver(_, _)
VListsOver(lev, keys) ==
    IF keys = {} THEN {<<>>}
    ELSE LET k == CHOOSE x \in keys : TRUE
         IN {Put(f, k, p) : f \in VListsOver(lev, keys \ {k}),
                            p \in Perms({n \in DOMAIN lev : lev[n] = k})}

VLists(lev) == VListsOver(lev, {lev[n] : n \in DOMAIN lev})

\* Mutant: the walk starts at the smallest key, so deeper levels are skipped.
MinKey(vlist) == IF DOMAIN vlist = {} THEN -1
                 ELSE CHOOSE k \in DOMAIN vlist : \A j \in DOMAIN vlist : k <= j

\* vlist.keys().sorted().rev() is walked from the largest key down.
MaxKey(vlist) == IF DOMAIN vlist = {} THEN -1
                 ELSE CHOOSE k \in DOMAIN vlist : \A j \in DOMAIN vlist : j <= k

\* ---------------------------------------------------------------- BDD reduce
\* bdd.rs:88-95: the keys of vlist (decision vertices only, by var_index).
bdd_vlist_keys(h, root) ==
    [n \in {m \in all_nodes(h, root) : h[m].tag = "Var"} |-> h[n].var_index]

\* bdd.rs:88-95: to_index before the levels are walked: 1 + 2 for every
\* decision vertex, the value for a terminal.
bdd_to_index(h, root) ==
    [n \in all_nodes(h, root) |-> IF h[n].tag = "Var" THEN 1 + 2 ELSE b2u(h[n].b)]

\* bdd.rs:90, node.rs:262-265: a decision vertex holds the id it was given
\* before the levels are walked until a level assigns its id (done).
placeholder(h, done, c) == h[c].tag = "Var" /\ c \notin done

\* The staged vertices of a level after the level's walk: two of them hold the
\* same id exactly when their keys agree, and one vertex was built per key.
level_merged(q, ids, built) ==
    /\ \A i, j \in 1 .. Len(q) : (ids[q[i][2]] = ids[q[j][2]]) <=> (q[i][1] = q[j][1])
    /\ built = Cardinality({q[i][1] : i \in 1 .. Len(q)})

\* Mutant: the elimination rule compares the children by address, not by id.
bdd_redundant_by_address(to_index, low, high) == low = high

\* bdd.rs:107: the BDD elimination rule, on the ids of the two children.
bdd_redundant(to_index, low, high) == to_index[low] = to_index[high]

\* Mutant: staged vertices are never joined.
bdd_same_key_never(key, old_key) == FALSE

\* bdd.rs:121: a staged vertex joins the previous one when the keys agree.
bdd_same_key(key, old_key) == key = old_key

\* bdd.rs:101-118: the first loop over a level; a vertex whose children hold
\* the same id takes that id, every other vertex is staged under its key.
RECURSIVE bdd_stage(_, _, _, _)
bdd_stage(h, lst, acc, k) ==
    IF k > Len(lst) THEN acc
    ELSE LET node == lst[k]
             low == h[node].low
             high == h[node].high
             seen == [acc EXCEPT !.early = @ \/ placeholder(h, acc.done, low)
                                                \/ placeholder(h, acc.done, high)]
         IN bdd_stage(h, lst,
                IF h[node].tag = "Bool" THEN acc
                ELSE IF bdd_redundant(acc.to_index, low, high)
                THEN [seen EXCEPT !.to_index = Put(@, node, acc.to_index[low]), !.done = @ \cup {node}]
                ELSE [seen EXCEPT !.q = Append(@, <<<<acc.to_index[low], acc.to_index[high]>>, node>>)],
                k + 1)

\* bdd.rs:120-146: the walk over the sorted staged vertices of a level.
RECURSIVE bdd_merge(_, _, _)
bdd_merge(q, acc, k) ==
    IF k > Len(q) \/ acc.panic THEN acc
    ELSE LET key == q[k][1]
             node == q[k][2]
             h == acc.heap
         IN IF bdd_same_key(key, acc.old_key)
            THEN bdd_merge(q, [acc EXCEPT !.to_index = Put(@, node, acc.next_id),
                                          !.done = @ \cup {node}], k + 1)
            ELSE LET id == acc.next_id + 1
                 IN IF h[node].tag = "Bool"
                    THEN bdd_merge(q, [acc EXCEPT !.next_id = id,
                                                  !.to_index = Put(@, node, id),
                                                  !.from_index = Put(@, id, node),
                                                  !.done = @ \cup {node},
                                                  !.ids = Append(@, id),
                                                  !.old_key = key], k + 1)
                    ELSE LET li == acc.to_index[h[node].low]
                             hi == acc.to_index[h[node].high]
                         IN IF li \notin DOMAIN acc.from_index \/ hi \notin DOMAIN acc.from_index
                            THEN [acc EXCEPT !.next_id = id, !.panic = TRUE]
                            ELSE LET n == new_var(h, h[node].var_index,
                                                  acc.from_index[li], acc.from_index[hi])
                                 IN bdd_merge(q, [acc EXCEPT !.heap = n.heap,
                                                             !.next_id = id,
                                                             !.to_index = Put(Put(@, node, id), n.node, id),
                                                             !.from_index = Put(@, id, n.node),
                                                             !.done = @ \cup {node, n.node},
                                                             !.ids = Append(@, id),
                                                             !.built = @ + 1,
                                                             !.old_key = key], k + 1)

\* bdd.rs:97-147: one level.
bdd_level(acc, lst) ==
    LET st == bdd_stage(acc.heap, lst, [to_index |-> acc.to_index, q |-> <<>>,
                                        done |-> acc.done, early |-> acc.early], 1)
        m == bdd_merge(SortByKey(st.q),
                       [acc EXCEPT !.to_index = st.to_index, !.old_key = <<0, 0>>,
                                   !.done = st.done, !.early = st.early], 1)
    IN IF m.panic THEN m
       ELSE [m EXCEPT !.staged = @ + Len(st.q),
                      !.merged = @ /\ level_merged(st.q, m.to_index, m.built - acc.built)]

RECURSIVE bdd_levels(_, _, _)
bdd_levels(acc, vlist, vi) ==
    IF vi < 0 \/ acc.panic THEN acc
    ELSE bdd_levels(IF vi \in DOMAIN vlist THEN bdd_level(acc, vlist[vi]) ELSE acc,
                    vlist, vi - 1)

\* Mutant: the root is the node of the last id allocated, not of the root's id.
bdd_pick_root_last(acc, root) ==
    IF acc.panic \/ acc.next_id \notin DOMAIN acc.from_index
    THEN [heap |-> acc.heap, graph |-> 0, panic |-> TRUE,
          to_index |-> acc.to_index, from_index |-> acc.from_index, next_id |-> acc.next_id,
          walk |-> [early |-> acc.early, ids |-> acc.ids, built |-> acc.built,
                    staged |-> acc.staged, merged |-> acc.merged]]
    ELSE [heap |-> acc.heap, graph |-> acc.from_index[acc.next_id], panic |-> FALSE,
          to_index |-> acc.to_index, from_index |-> acc.from_index, next_id |-> acc.next_id,
          walk |-> [early |-> acc.early, ids |-> acc.ids, built |-> acc.built,
                    staged |-> acc.staged, merged |-> acc.merged]]

\* bdd.rs:148-152: the node registered under the id of the input root.
bdd_pick_root(acc, root) ==
    IF acc.panic \/ acc.to_index[root] \notin DOMAIN acc.from_index
    THEN [heap |-> acc.heap, graph |-> 0, panic |-> TRUE,
          to_index |-> acc.to_index, from_index |-> acc.from_index, next_id |-> acc.next_id,
          walk |-> [early |-> acc.early, ids |-> acc.ids, built |-> acc.built,
                    staged |-> acc.staged, merged |-> acc.merged]]
    ELSE [heap |-> acc.heap, graph |-> acc.from_index[acc.to_index[root]], panic |-> FALSE,
          to_index |-> acc.to_index, from_index |-> acc.from_index, next_id |-> acc.next_id,
          walk |-> [early |-> acc.early, ids |-> acc.ids, built |-> acc.built,
                    staged |-> acc.staged, merged |-> acc.merged]]

\* BinaryDecisionDiagram::reduce on the graph rooted at root, with vlist the
\* per-level vectors in the order the HashSet of all_nodes was iterated.
\* done, early, ids, built, staged and merged only observe the walk: the
\* vertices whose id a level has assigned, whether a vertex was examined while
\* a child still held its first id, the ids allocated in turn, the vertices
\* built, the vertices staged, and level_merged of every level so far.
bdd_reduce(h, root, vlist) ==
    LET f == new_constant(h, FALSE)
        t == new_constant(f.heap, TRUE)
        acc0 == [heap |-> t.heap,
                 to_index |-> bdd_to_index(h, root),
                 from_index |-> (0 :> f.node) @@ (1 :> t.node),
                 next_id |-> 2,
                 old_key |-> <<0, 0>>,
                 done |-> {}, early |-> FALSE, ids |-> <<>>, built |-> 0,
                 staged |-> 0, merged |-> TRUE,
                 panic |-> FALSE]
    IN bdd_pick_root(bdd_levels(acc0, vlist, MaxKey(vlist)), root)

\* ---------------------------------------------------------------- indexer
\* node.rs:257-266: the loop of build_indexer over one root, order being the
\* iteration order of root.all_nodes().
RECURSIVE build_indexer_root(_, _, _, _)
build_indexer_root(h, order, acc, k) ==
    IF k > Len(order) THEN acc
    ELSE LET n == order[k]
             i == acc.i + 1
         IN build_indexer_root(h, order,
                [acc EXCEPT !.i = i,
                            !.node = Put(@, i, n),
                            !.index = Put(@, n, IF h[n].tag = "Bool" THEN b2u(h[n].b) ELSE i)],
                k + 1)

RECURSIVE build_indexer_roots(_, _, _, _)
\* Mutant: the counter i starts again at 1 for every root.
build_indexer_roots_restart(h, orders, acc, r) ==
    IF r > Len(orders) THEN acc
    ELSE build_indexer_roots(h, orders,
             build_indexer_root(h, orders[r], [acc EXCEPT !.i = 1], 1), r + 1)

\* node.rs:257-266: the roots in turn, the counter i running on.
build_indexer_roots(h, orders, acc, r) ==
    IF r > Len(orders) THEN acc
    ELSE build_indexer_roots(h, orders, build_indexer_root(h, orders[r], acc, 1), r + 1)

\* build_indexer(nodes): orders[r] is the iteration order of the all_nodes set
\* of the r-th root.  Allocates the two terminals held under ids 0 and 1.
build_indexer(h, orders) ==
    LET f == new_constant(h, FALSE)
        t == new_constant(f.heap, TRUE)
        acc == build_indexer_roots(t.heap, orders,
                   [i |-> 1,
                    node |-> (0 :> f.node) @@ (1 :> t.node),
                    index |-> (f.node :> 0) @@ (t.node :> 1)], 1)
    IN [heap |-> t.heap, index |-> acc.index, node |-> acc.node]

\* ---------------------------------------------------------------- ZDD reduce
\* zdd.rs:59-61: the keys of vlist (every reachable node, by unified_key).
zdd_vlist_keys(h, root) == [n \in all_nodes(h, root) |-> unified_key(h, n)]

\* zdd.rs:71: the ZDD elimination rule, on the id of the high child.
zdd_redundant(index, low, high) == index[high] = 0

\* Mutant: staged vertices of a ZDD level are never joined.
zdd_same_key_never(key, old_key) == FALSE

\* zdd.rs:83: a staged vertex joins the previous one when the keys agree.
zdd_same_key(key, old_key) == key = old_key

\* zdd.rs:65-79: the first loop over a level; a vertex whose high child holds
\* id 0 takes the id of its low child, every other vertex is staged.
RECURSIVE zdd_stage(_, _, _, _)
zdd_stage(h, lst, acc, k) ==
    IF k > Len(lst) THEN acc
    ELSE LET node == lst[k]
             low == h[node].low
             high == h[node].high
             seen == [acc EXCEPT !.early = @ \/ placeholder(h, acc.done, low)
                                                \/ placeholder(h, acc.done, high)]
         IN zdd_stage(h, lst,
                IF h[node].tag = "Bool" THEN acc
                ELSE IF zdd_redundant(acc.index, low, high)
                THEN [seen EXCEPT !.index = Put(@, node, acc.index[low]), !.done = @ \cup {node}]
                ELSE [seen EXCEPT !.q = Append(@, <<<<acc.index[low], acc.index[high]>>, node>>)],
                k + 1)

\* zdd.rs:82-109: the walk over the sorted staged vertices of a level.
RECURSIVE zdd_merge(_, _, _)
zdd_merge(q, acc, k) ==
    IF k > Len(q) \/ acc.panic THEN acc
    ELSE LET key == q[k][1]
             n == q[k][2]
             h == acc.heap
         IN IF zdd_same_key(key, acc.old_key)
            THEN zdd_merge(q, [acc EXCEPT !.index = Put(@, n, acc.next_id),
                                          !.done = @ \cup {n}], k + 1)
            ELSE LET id == acc.next_id + 1
                 IN IF h[n].tag = "Bool"
                    THEN zdd_merge(q, [acc EXCEPT !.next_id = id,
                                                  !.index = Put(@, n, id),
                                                  !.node = Put(@, id, n),
                                                  !.done = @ \cup {n},
                                                  !.ids = Append(@, id),
                                                  !.old_key = key], k + 1)
                    ELSE LET li == acc.index[h[n].low]
                             hi == acc.index[h[n].high]
                         IN IF li \notin DOMAIN acc.node \/ hi \notin DOMAIN acc.node
                            THEN [acc EXCEPT !.next_id = id, !.panic = TRUE]
                            ELSE LET nn == new_var(h, h[n].var_index, acc.node[li], acc.node[hi])
                                 IN zdd_merge(q, [acc EXCEPT !.heap = nn.heap,
                                                             !.next_id = id,
                                                             !.index = Put(Put(@, n, id), nn.node, id),
                                                             !.node = Put(@, id, nn.node),
                                                             !.done = @ \cup {n, nn.node},
                                                             !.ids = Append(@, id),
                                                             !.built = @ + 1,
                                                             !.old_key = key], k + 1)

\* zdd.rs:63-110: one level.
zdd_level(acc, lst) ==
    LET st == zdd_stage(acc.heap, lst, [index |-> acc.index, q |-> <<>>,
                                        done |-> acc.done, early |-> acc.early], 1)
        m == zdd_merge(SortByKey(st.q),
                       [acc EXCEPT !.index = st.index, !.old_key = <<UsizeMax, UsizeMax>>,
                                   !.done = st.done, !.early = st.early], 1)
    IN IF m.panic THEN m
       ELSE [m EXCEPT !.staged = @ + Len(st.q),
                      !.merged = @ /\ level_merged(st.q, m.index, m.built - acc.built)]

RECURSIVE zdd_levels(_, _, _)
zdd_levels(acc, vlist, vi) ==
    IF vi < 0 \/ acc.panic THEN acc
    ELSE zdd_levels(IF vi \in DOMAIN vlist THEN zdd_level(acc, vlist[vi]) ELSE acc,
                    vlist, vi - 1)

\* zdd.rs:111-112: the node held under the last id that was allocated.
zdd_pick_root(acc, root) ==
    IF acc.panic \/ acc.next_id \notin DOMAIN acc.node
    THEN [heap |-> acc.heap, graph |-> 0, panic |-> TRUE,
          index |-> acc.index, node |-> acc.node, next_id |-> acc.next_id,
          walk |-> [early |-> acc.early, ids |-> acc.ids, built |-> acc.built,
                    staged |-> acc.staged, merged |-> acc.merged]]
    ELSE [heap |-> acc.heap, graph |-> acc.node[acc.next_id], panic |-> FALSE,
          index |-> acc.index, node |-> acc.node, next_id |-> acc.next_id,
          walk |-> [early |-> acc.early, ids |-> acc.ids, built |-> acc.built,
                    staged |-> acc.staged, merged |-> acc.merged]]

\* ReducedDecisionDiagram::reduce for ZDD on the graph rooted at root: order is
\* the iteration order inside build_indexer, vlist the per-level vectors filled
\* from the second all_nodes iteration.
zdd_reduce(h, root, order, vlist) ==
    LET ix == build_indexer(h, <<order>>)
        acc0 == [heap |-> ix.heap,
                 index |-> ix.index,
                 node |-> ix.node,
                 next_id |-> 2,
                 old_key |-> <<UsizeMax, UsizeMax>>,
                 done |-> {}, early |-> FALSE, ids |-> <<>>, built |-> 0,
                 staged |-> 0, merged |-> TRUE,
                 panic |-> FALSE]
    IN zdd_pick_root(zdd_levels(acc0, vlist, MaxKey(vlist)), root)

\* ---------------------------------------------------------------- ZDD apply
\* The sixteen binary boolean operators, as truth tables.
Operators == [BOOLEAN \X BOOLEAN -> BOOLEAN]

\* zdd.rs:126-133: the known value of the pair, None (<<>>) when not known.
aux_value(op, unit, v1, v2, evaluation) ==
    IF v1 \in DOMAIN evaluation /\ evaluation[v1] = unit THEN <<unit>>
    ELSE IF v2 \in DOMAIN evaluation /\ evaluation[v2] = unit THEN <<unit>>
    ELSE IF v1 \notin DOMAIN evaluation \/ v2 \notin DOMAIN evaluation THEN <<>>
    ELSE <<op[<<evaluation[v1], evaluation[v2]>>]>>

\* Mutant: the pair branches on the key of the first operand whenever that is
\* a decision vertex.
aux_key_first(op, v1key, v2key) ==
    IF v1key >= 2 THEN v1key
    ELSE IF v2key >= 2 THEN v2key
    ELSE b2u(op[<<v1key = 1, v2key = 1>>])

\* Mutant: the pair branches on the larger of the two keys.
aux_key_max(op, v1key, v2key) ==
    IF v1key >= 2 /\ v2key >= 2 THEN (IF v1key < v2key THEN v2key ELSE v1key)
    ELSE IF v1key >= 2 THEN v1key
    ELSE IF v2key >= 2 THEN v2key
    ELSE b2u(op[<<v1key = 1, v2key = 1>>])

\* zdd.rs:137-144: the key the pair branches on.
aux_key(op, v1key, v2key) ==
    IF v1key >= 2 /\ v2key >= 2 THEN (IF v1key < v2key THEN v1key ELSE v2key)
    ELSE IF v1key >= 2 THEN v1key
    ELSE IF v2key >= 2 THEN v2key
    ELSE b2u(op[<<v1key = 1, v2key = 1>>])

\* zdd.rs:148-157: the operand's children if it carries the key, else itself.
aux_low(h, v, key) == IF unified_key(h, v) = key THEN h[v].low ELSE v
aux_high(h, v, key) == IF unified_key(h, v) = key THEN h[v].high ELSE v

\* Mutant: the node built for the pair is not remembered under its key.
aux_insert_forget(st, hash_key, value, u) ==
    [st EXCEPT !.u = u,
               !.evaluation = IF value # <<>> THEN Put(@, u, value[1]) ELSE @,
               !.made = @ + 1]

\* zdd.rs:164-168: record the node built for the pair.
aux_insert(st, hash_key, value, u) ==
    [st EXCEPT !.u = u,
               !.evaluation = IF value # <<>> THEN Put(@, u, value[1]) ELSE @,
               !.dup = @ \/ hash_key \in DOMAIN st.merged,
               !.made = @ + 1,
               !.merged = Put(@, hash_key, u)]

\* zdd.rs:129-130: an operand of the pair is a terminal of the value unit.
unit_operand(h, unit, v1, v2) ==
    \E v \in {v1, v2} : h[v].tag = "Bool" /\ h[v].b = unit

\* zdd.rs:139-143, 158-159: the variable key - 2 is the least variable of the
\* operands that are decision vertices.
least_variable(h, key, v1, v2) ==
    LET vs == {h[v].var_index : v \in {w \in {v1, v2} : h[w].tag = "Var"}}
    IN key - 2 \in vs /\ \A x \in vs : key - 2 <= x

\* zdd.rs:143, 146: for two terminals the key is op of their values.
terminal_op(h, op, key, v1, v2) ==
    (h[v1].tag = "Bool" /\ h[v2].tag = "Bool") =>
        (key < 2 /\ (key = 1) = op[<<h[v1].b, h[v2].b>>])

\* zdd.rs:115-169: apply::aux on the pair (v1, v2).  st threads the heap and the
\* two caches through the calls; st.u is the node returned.  calls, maxdepth,
\* made, dup and same only observe the run (same: a call was made on the very
\* pair of its caller), and so do past_unit (a pair with a terminal of the
\* value unit was taken apart), off_unit (such a pair of terminals got another
\* value), minvar (every vertex built carries least_variable) and termop
\* (terminal_op of every pair a node was built for).
RECURSIVE aux(_, _, _, _, _, _, _)
aux(op, unit, v1, v2, ix, st0, depth) ==
    LET st == [st0 EXCEPT !.calls = @ + 1,
                          !.maxdepth = IF depth > @ THEN depth ELSE @]
        hash_key == <<ix.index[v1], ix.index[v2]>>
        value == aux_value(op, unit, v1, v2, st.evaluation)
        key == aux_key(op, unified_key(st.heap, v1), unified_key(st.heap, v2))
    IN IF hash_key \in DOMAIN st.merged THEN [st EXCEPT !.u = st.merged[hash_key]]
       ELSE IF value # <<>> THEN [st EXCEPT !.u = ix.node[b2u(value[1])]]
       ELSE IF key < 2
       THEN LET c == new_constant(st.heap, key = 1)
            IN aux_insert([st EXCEPT !.heap = c.heap,
                                     !.off_unit = @ \/ (unit_operand(st.heap, unit, v1, v2)
                                                        /\ (key = 1) # unit),
                                     !.termop = @ /\ terminal_op(st.heap, op, key, v1, v2)],
                          hash_key, value, c.node)
       ELSE LET vlow == <<aux_low(st.heap, v1, key), aux_low(st.heap, v2, key)>>
                vhigh == <<aux_high(st.heap, v1, key), aux_high(st.heap, v2, key)>>
                lo == aux(op, unit, vlow[1], vlow[2], ix,
                          [st EXCEPT !.same = @ \/ vlow = <<v1, v2>> \/ vhigh = <<v1, v2>>,
                                     !.past_unit = @ \/ unit_operand(st.heap, unit, v1, v2),
                                     !.minvar = @ /\ least_variable(st.heap, key, v1, v2),
                                     !.termop = @ /\ terminal_op(st.heap, op, key, v1, v2)],
                          depth + 1)
                hi == aux(op, unit, vhigh[1], vhigh[2], ix, lo, depth + 1)
                n == new_var(hi.heap, key - 2, lo.u, hi.u)
            IN aux_insert([hi EXCEPT !.heap = n.heap], hash_key, value, n.node)

\* zdd.rs:170-180: the raw node aux returns for the two operand graphs, for the
\* two iteration orders inside build_indexer; what of the run does not depend
\* on the ids is kept.
apply_raw(h, op, unit, g1, g2, order1, order2) ==
    LET ix == build_indexer(h, <<order1, order2>>)
        st == aux(op, unit, g1, g2, ix,
                  [heap |-> ix.heap, merged |-> <<>>, evaluation |-> <<>>, u |-> 0,
                   calls |-> 0, maxdepth |-> 0, made |-> 0, dup |-> FALSE, same |-> FALSE,
                   past_unit |-> FALSE, off_unit |-> FALSE, minvar |-> TRUE, termop |-> TRUE], 1)
    IN [heap |-> st.heap, u |-> st.u, calls |-> st.calls, maxdepth |-> st.maxdepth,
        made |-> st.made, dup |-> st.dup, same |-> st.same, keys |-> Cardinality(DOMAIN st.merged),
        known |-> Cardinality(DOMAIN st.evaluation),
        pairs |-> Cardinality({ix.index[a] : a \in all_nodes(h, g1)})
                    * Cardinality({ix.index[b] : b \in all_nodes(h, g2)}),
        past_unit |-> st.past_unit, off_unit |-> st.off_unit,
        minvar |-> st.minvar, termop |-> st.termop]

\* ---------------------------------------------------------------- BDD apply
\* bdd.rs:155-172: from_index / to_index over the nodes of self chained with
\* the nodes of other, order being that chained iteration order.
RECURSIVE bdd_apply_enumerate(_, _, _, _)
bdd_apply_enumerate(h, order, acc, k) ==
    IF k > Len(order) THEN acc
    ELSE LET node == order[k]
             i == k - 1
         IN bdd_apply_enumerate(h, order,
                [acc EXCEPT !.from_index = Put(@, i + 2, node),
                            !.to_index = Put(@, node, IF h[node].tag = "Bool" THEN b2u(h[node].b)
                                                      ELSE i + 2)],
                k + 1)

bdd_apply_index(h, order) ==
    LET f == new_constant(h, FALSE)
        t == new_constant(f.heap, TRUE)
        acc == bdd_apply_enumerate(t.heap, order,
                   [from_index |-> (0 :> f.node) @@ (1 :> t.node), to_index |-> <<>>], 1)
    IN [heap |-> t.heap, to_index |-> acc.to_index, from_index |-> acc.from_index]

\* bdd.rs:223-228: the known value of the pair, None (<<>>) when not known.
bdd_aux_value(op, unit, v1, v2, evaluation) ==
    IF v1 \in DOMAIN evaluation /\ evaluation[v1] = unit THEN <<unit>>
    ELSE IF v2 \in DOMAIN evaluation /\ evaluation[v2] = unit THEN <<unit>>
    ELSE IF v1 \notin DOMAIN evaluation \/ v2 \notin DOMAIN evaluation THEN <<>>
    ELSE <<op[<<evaluation[v1], evaluation[v2]>>]>>

\* bdd.rs:261-270: the node u built for the pair; var_index().unwrap() on a
\* terminal panics (node = 0).
bdd_aux_u(h, op, v1, v2) ==
    IF h[v1].tag = "Bool" /\ h[v2].tag = "Bool"
    THEN new_constant(h, op[<<h[v1].b, h[v2].b>>])
    ELSE IF h[v1].tag = "Bool" THEN [heap |-> h, node |-> 0]
    ELSE IF h[v2].tag = "Bool" THEN [heap |-> h, node |-> 0]
    ELSE new_var(h, IF h[v1].var_index < h[v2].var_index THEN h[v1].var_index
                    ELSE h[v2].var_index, v1, v2)

\* bdd.rs:210-279: apply::aux on the pair (v1, v2).  st threads the heap and the
\* two caches through the calls; st.u is the node returned.  The call stack
\* holds at most MaxFrames frames: one more call exhausts it and the process
\* aborts (st.overflow).  st.repeat records that a call was entered with the
\* operands and the caches of the call that made it.
RECURSIVE bdd_aux(_, _, _, _, _, _, _)
bdd_aux(op, unit, v1, v2, ix, st0, depth) ==
    IF depth > MaxFrames THEN [st0 EXCEPT !.overflow = TRUE]
    ELSE
    LET st == [st0 EXCEPT !.calls = @ + 1]
        value == bdd_aux_value(op, unit, v1, v2, st.evaluation)
    IN IF v1 \notin DOMAIN ix.to_index \/ v2 \notin DOMAIN ix.to_index
       THEN [st EXCEPT !.panic = TRUE]
       ELSE LET hash_key == <<ix.to_index[v1], ix.to_index[v2]>>
            IN IF hash_key \in DOMAIN st.merged THEN [st EXCEPT !.u = st.merged[hash_key]]
               ELSE IF value # <<>> THEN [st EXCEPT !.u = ix.from_index[b2u(value[1])]]
               ELSE LET u == bdd_aux_u(st.heap, op, v1, v2)
                    IN IF u.node = 0 THEN [st EXCEPT !.panic = TRUE]
                       ELSE LET caller == [st EXCEPT !.heap = u.heap]
                                r == bdd_aux(op, unit, v1, v2, ix,
                                             [caller EXCEPT !.repeat = TRUE], depth + 1)
                            IN IF r.panic \/ r.overflow THEN r
                               ELSE [r EXCEPT !.u = u.node]

\* bdd.rs:154-290: BinaryDecisionDiagram::apply on the graphs g1 and g2.
bdd_apply(h, op, unit, g1, g2, order) ==
    LET ix == bdd_apply_index(h, order)
    IN bdd_aux(op, unit, g1, g2, ix,
               [heap |-> ix.heap, merged |-> <<>>, evaluation |-> <<>>, u |-> 0,
                calls |-> 0, panic |-> FALSE, overflow |-> FALSE, repeat |-> FALSE], 1)

\* ---------------------------------------------------------------- queries
\* node.rs:157-165 satisfy_one
RECURSIVE satisfy_one(_, _)
satisfy_one(h, n) ==
    IF h[n].tag = "Bool" THEN h[n].b
    ELSE IF satisfy_one(h, h[n].low) THEN TRUE ELSE satisfy_one(h, h[n].high)

\* A usize is 64 bits wide; the model holds it as UsizeLimbs limbs of 16 bits,
\* the least significant first.
LimbBase == 65536
UsizeLimbs == 4

\* `b as usize` and the small literals.
usize_of(k) == [i \in 1 .. UsizeLimbs |-> IF i = 1 THEN k ELSE 0]

\* a + b on usize, limb by limb: the wrapped sum and whether it overflowed.
RECURSIVE usize_add_from(_, _, _, _)
usize_add_from(a, b, i, carry) ==
    IF i > UsizeLimbs THEN [value |-> <<>>, overflow |-> carry # 0]
    ELSE LET sum == a[i] + b[i] + carry
             rest == usize_add_from(a, b, i + 1, sum \div LimbBase)
         IN [value |-> <<sum % LimbBase>> \o rest.value, overflow |-> rest.overflow]

usize_add(a, b) == usize_add_from(a, b, 1, 0)

\* node.rs:169-171: the cached count of a node.
cached_count(count, node) == count[node]

\* node.rs:168-180 linear_count: st threads the cache `count`; st.c is the
\* value returned.  a + b overflows when the sum needs more than 64 bits:
\* with overflow checks (checked, the debug profile) the addition panics,
\* without them (the release profile) it wraps.
RECURSIVE linear_count(_, _, _, _)
linear_count(h, checked, st, node) ==
    IF st.panic THEN st
    ELSE IF node \in DOMAIN st.count THEN [st EXCEPT !.c = cached_count(st.count, node)]
    ELSE IF h[node].tag = "Bool" THEN [st EXCEPT !.c = usize_of(b2u(h[node].b))]
    ELSE LET a == linear_count(h, checked, st, h[node].low)
             b == linear_count(h, checked, a, h[node].high)
             c == usize_add(a.c, b.c)
         IN IF a.panic \/ b.panic THEN [b EXCEPT !.panic = TRUE]
            ELSE IF c.overflow /\ checked THEN [b EXCEPT !.panic = TRUE]
            ELSE [b EXCEPT !.c = c.value, !.count = Put(@, node, c.value)]

\* A frame of linear_count: the node it counts, where it stands ("enter",
\* "low": in the call on low, "high": in the call on high) and the count a of
\* low once known.
Frame(n) == [node |-> n, pc |-> "enter", a |-> usize_of(0)]

\* No satisfy_all is running.
NoCall == [root |-> 0, checked |-> FALSE, count |-> <<>>, ret |-> usize_of(0), stack |-> <<>>]

\* node.rs:166-182 satisfy_all
satisfy_all(h, n, checked) ==
    linear_count(h, checked, [count |-> <<>>, c |-> usize_of(0), panic |-> FALSE], n)

\* ---------------------------------------------------------------- export
\* What write_as_gv hands to one sink.write_all call.
GvHeader == <<"digraph">>
GvFooter == <<"}">>
GvTerminal(id) == <<"terminal", id>>
GvVertex(i, var_index) == <<"vertex", i, var_index>>
GvEdge(i, j, style) == <<"edge", i, j, style>>

\* node.rs:94-95: index, i + 2 for the i-th node of the iteration (i from 0).
gv_index(order) == [n \in {order[k] : k \in 1 .. Len(order)} |->
                       (CHOOSE k \in 1 .. Len(order) : order[k] = n) - 1 + 2]

\* dd.rs:166-170: index holds the decision vertices only.
dd_gv_index(h, order) == [n \in {order[k] : k \in {j \in 1 .. Len(order) : h[order[j]].tag = "Var"}} |->
                             (CHOOSE k \in 1 .. Len(order) : order[k] = n) - 1 + 2]

\* node.rs:93-100: bools, whether a false / a true terminal was met.
gv_bools(h, order) ==
    [b \in BOOLEAN |-> \E k \in 1 .. Len(order) : h[order[k]].tag = "Bool" /\ h[order[k]].b = b]

\* Mutant: a terminal's record is written whether or not the terminal was met.
gv_terminal_always(bools, b) == TRUE

\* node.rs:103, 108: a terminal's record is written if that terminal was met.
gv_terminal_written(bools, b) == bools[b]

\* node.rs:115-119, 129-143: the id of a node in the output.
gv_id(h, index, n) == IF h[n].tag = "Bool" THEN b2u(h[n].b) ELSE index[n]

\* node.rs:113-122: one record per decision vertex, in iteration order.
RECURSIVE gv_vertices(_, _, _, _)
gv_vertices(h, index, order, k) ==
    IF k > Len(order) THEN <<>>
    ELSE (IF h[order[k]].tag = "Var"
          THEN <<GvVertex(gv_id(h, index, order[k]), h[order[k]].var_index)>>
          ELSE <<>>) \o gv_vertices(h, index, order, k + 1)

\* node.rs:124-153 (dd.rs:185-214): the edges of every decision vertex, one
\* when the ids of low and high coincide, else the low edge, then the high
\* edge.
RECURSIVE gv_edges(_, _, _, _, _)
gv_edges(h, index, order, k, styles) ==
    IF k > Len(order) THEN <<>>
    ELSE (IF h[order[k]].tag = "Var"
          THEN LET i == gv_id(h, index, order[k])
                   j == gv_id(h, index, h[order[k]].low)
                   kk == gv_id(h, index, h[order[k]].high)
               IN IF j = kk THEN <<GvEdge(i, j, "black")>>
                  ELSE <<GvEdge(i, j, styles[1]), GvEdge(i, kk, styles[2])>>
          ELSE <<>>) \o gv_edges(h, index, order, k + 1, styles)

\* node.rs:85-156: the write_all calls of write_as_gv in turn, were none to
\* fail; o1, o2, o3 are the iteration orders of the three all_nodes() sets.
gv_writes(h, o1, o2, o3) ==
    LET index == gv_index(o1)
        bools == gv_bools(h, o1)
    IN <<GvHeader>>
       \o (IF gv_terminal_written(bools, FALSE) THEN <<GvTerminal(0)>> ELSE <<>>)
       \o (IF gv_terminal_written(bools, TRUE) THEN <<GvTerminal(1)>> ELSE <<>>)
       \o gv_vertices(h, index, o2, 1)
       \o gv_edges(h, index, o3, 1, <<"red", "blue">>)
       \o <<GvFooter>>

\* dd.rs:158-217: the same for the write_as_gv of dd.rs.
dd_gv_writes(h, o1, o2, o3) ==
    LET index == dd_gv_index(h, o1)
    IN <<GvHeader, GvTerminal(0), GvTerminal(1)>>
       \o gv_vertices(h, index, o2, 1)
       \o gv_edges(h, index, o3, 1, <<"blue", "red">>)
       \o <<GvFooter>>

\* io::Write::write_all of the caller's sink: the fail_at-th call fails and
\* takes nothing, every other call takes the whole record.
sink_write_all(sink, rec) ==
    IF sink.calls + 1 = sink.fail_at
    THEN [ok |-> FALSE, sink |-> [sink EXCEPT !.calls = @ + 1]]
    ELSE [ok |-> TRUE, sink |-> [sink EXCEPT !.calls = @ + 1, !.written = Append(@, rec)]]

\* Mutant: a failed write is ignored.
gv_error_ignored(ok) == FALSE

\* The `?` after every write_all: a failed write makes write_as_gv return it.
gv_error_returned(ok) == ~ok

\* node.rs:86-155: the writes made in turn, each followed by `?`; Ok(()) after
\* the last.
RECURSIVE gv_write_in_turn(_, _, _)
gv_write_in_turn(writes, k, sink) ==
    IF k > Len(writes) THEN [result |-> "Ok", sink |-> sink]
    ELSE LET r == sink_write_all(sink, writes[k])
         IN IF gv_error_returned(r.ok) THEN [result |-> "Err", sink |-> r.sink]
            ELSE gv_write_in_turn(writes, k + 1, r.sink)

\* write_as_gv(sink) on the graph whose writes are given.
write_as_gv(writes, fail_at) ==
    gv_write_in_turn(writes, 1, [written |-> <<>>, calls |-> 0, fail_at |-> fail_at])

\* ---------------------------------------------------------------- fixture
NoDiagram == [graph |-> 0, reduced |-> FALSE]

\* The record of an operation: its operands, its outcome, whether it aborted.
Op(name, in, in2, out, panic, reduced) ==
    [op |-> name, in |-> in, in2 |-> in2, out |-> out, panic |-> panic,
     reduced |-> reduced, raw |-> 0, fn |-> <<>>, unit |-> FALSE, at |-> 0, run |-> <<>>,
     byid |-> 0]

\* The node the id-to-node map holds under the id the node-to-id map holds
\* for root; 0 when there is none.
ById(to_node, to_id, root) ==
    IF root \in DOMAIN to_id /\ to_id[root] \in DOMAIN to_node THEN to_node[to_id[root]] ELSE 0

NoOp == Op("none", 0, 0, 0, FALSE, FALSE)

\* A panic aborts the process.
Running == ~last.panic

Init ==
    /\ heap = <<>>
    /\ nraw = 0
    /\ bdd = NoDiagram
    /\ bdd2 = NoDiagram
    /\ zdd = NoDiagram
    /\ zdd2 = NoDiagram
    /\ res = NoDiagram
    /\ call = NoCall
    /\ last = NoOp
    /\ nops = 0

\* The fixture code builds raw graphs bottom-up, children before parents (a
\* vertex is immutable once built).  Addresses carry no meaning, so the
\* vertices are allocated in one fixed topological order: the terminals
\* first (false before true), then the decision vertices from the deepest
\* variable upwards, those of one variable by their (low, high) addresses.
NumDecision(h) == Cardinality({n \in 1 .. Len(h) : h[n].tag = "Var"})

\* Node::new_constant(b)
NewConstant(b) ==
    /\ nops = 0
    /\ nraw < MaxNodes
    /\ NumDecision(heap) = 0
    /\ nraw > 0 /\ heap[nraw].b => b
    /\ heap' = new_constant(heap, b).heap
    /\ nraw' = nraw + 1
    /\ UNCHANGED <<bdd, bdd2, zdd, zdd2, res, call, last, nops>>

\* A child may follow a decision vertex of variable v in a strictly ordered
\* graph.
Below(h, c, v) == h[c].tag = "Bool" \/ h[c].var_index > v

\* Node::new_var(v, low, high) over nodes built before, keeping the variables
\* strictly increasing from parent to child.
NewVar(v, l, hi) ==
    /\ nops = 0
    /\ nraw < MaxNodes
    /\ heap[nraw].tag = "Var" =>
          \/ v < heap[nraw].var_index
          \/ v = heap[nraw].var_index /\ ~KeyLess(<<l, hi>>, <<heap[nraw].low, heap[nraw].high>>)
    /\ Below(heap, l, v) /\ Below(heap, hi, v)
    /\ heap' = new_var(heap, v, l, hi).heap
    /\ nraw' = nraw + 1
    /\ UNCHANGED <<bdd, bdd2, zdd, zdd2, res, call, last, nops>>

\* Node::new_var(v, low, high) with a child that carries the variable v itself:
\* new_var takes any two nodes, and the variables still never decrease from
\* parent to child.
NewVarSame(v, l, hi) ==
    /\ nops = 0
    /\ nraw < MaxNodes
    /\ heap[nraw].tag = "Var" => v <= heap[nraw].var_index
    /\ \A c \in {l, hi} : heap[c].tag = "Bool" \/ heap[c].var_index >= v
    /\ \E c \in {l, hi} : heap[c].tag = "Var" /\ heap[c].var_index = v
    /\ heap' = new_var(heap, v, l, hi).heap
    /\ nraw' = nraw + 1
    /\ UNCHANGED <<bdd, bdd2, zdd, zdd2, res, call, last, nops>>

\* BDD::new_from(graph): a BDD holding the graph as it is given.
BddNewFrom(n) ==
    /\ Running
    /\ bdd.graph = 0
    /\ bdd' = [graph |-> n, reduced |-> FALSE]
    /\ last' = Op("bdd_new_from", n, 0, n, FALSE, FALSE)
    /\ nops' = nops + 1
    /\ UNCHANGED <<heap, nraw, bdd2, zdd, zdd2, res, call>>

\* ToBinaryDecisionDiagram for Node: a BDD holding the graph, then reduce.
ToBdd(n) ==
    /\ Running
    /\ bdd.graph = 0
    /\ \E vlist \in VLists(bdd_vlist_keys(heap, n)) :
         LET r == bdd_reduce(heap, n, vlist)
         IN /\ heap' = r.heap
            /\ bdd' = [graph |-> r.graph, reduced |-> ~r.panic]
            /\ last' = [Op("to_bdd", n, 0, r.graph, r.panic, FALSE)
                          EXCEPT !.byid = ById(r.from_index, r.to_index, n), !.run = r.walk]
    /\ nops' = nops + 1
    /\ UNCHANGED <<nraw, bdd2, zdd, zdd2, res, call>>

\* BinaryDecisionDiagram::reduce called on the BDD value.
BddReduce ==
    /\ Running
    /\ nops < MaxOps
    /\ bdd.graph # 0
    /\ \E vlist \in VLists(bdd_vlist_keys(heap, bdd.graph)) :
         LET r == bdd_reduce(heap, bdd.graph, vlist)
         IN /\ heap' = r.heap
            /\ bdd' = [graph |-> r.graph, reduced |-> ~r.panic]
            /\ last' = [Op("bdd_reduce", bdd.graph, 0, r.graph, r.panic, bdd.reduced)
                          EXCEPT !.byid = ById(r.from_index, r.to_index, bdd.graph), !.run = r.walk]
    /\ nops' = nops + 1
    /\ UNCHANGED <<nraw, bdd2, zdd, zdd2, res, call>>

\* to_bdd for the value that becomes `other` of BDD apply.
ToBddOther(n) ==
    /\ Running
    /\ bdd.graph # 0
    /\ bdd2.graph = 0
    /\ \E vlist \in VLists(bdd_vlist_keys(heap, n)) :
         LET r == bdd_reduce(heap, n, vlist)
         IN /\ heap' = r.heap
            /\ bdd2' = [graph |-> r.graph, reduced |-> ~r.panic]
            /\ last' = [Op("to_bdd", n, 0, r.graph, r.panic, FALSE)
                          EXCEPT !.byid = ById(r.from_index, r.to_index, n), !.run = r.walk]
    /\ nops' = nops + 1
    /\ UNCHANGED <<nraw, bdd, zdd, zdd2, res, call>>

\* BDD apply: self.apply(op, unit, other).  A panic and an exhausted call stack
\* both abort the process; no BDD is returned then.
BddApply(op, unit) ==
    /\ Running
    /\ bdd.graph # 0 /\ bdd2.graph # 0
    /\ last.op # "bdd_apply"
    /\ \E o1 \in Perms(all_nodes(heap, bdd.graph)), o2 \in Perms(all_nodes(heap, bdd2.graph)) :
         LET r == bdd_apply(heap, op, unit, bdd.graph, bdd2.graph, o1 \o o2)
             aborted == r.panic \/ r.overflow
         IN /\ heap' = r.heap
            /\ last' = [Op("bdd_apply", bdd.graph, bdd2.graph, IF aborted THEN 0 ELSE r.u,
                           aborted, FALSE)
                          EXCEPT !.fn = op, !.unit = unit,
                                 !.run = [calls |-> r.calls, overflow |-> r.overflow,
                                          repeat |-> r.repeat,
                                          index |-> bdd_apply_index(heap, o1 \o o2).to_index]]
    /\ nops' = nops + 1
    /\ UNCHANGED <<nraw, bdd, bdd2, zdd, zdd2, res, call>>

\* Node::build_indexer(&[n1, n2]) on two raw graphs.
BuildIndexer(n1, n2) ==
    /\ Running
    /\ \E o1 \in Perms(all_nodes(heap, n1)), o2 \in Perms(all_nodes(heap, n2)) :
         LET ix == build_indexer(heap, <<o1, o2>>)
         IN /\ heap' = ix.heap
            /\ last' = [Op("build_indexer", n1, n2, 0, FALSE, FALSE)
                          EXCEPT !.run = [index |-> ix.index, node |-> ix.node]]
    /\ nops' = nops + 1
    /\ UNCHANGED <<nraw, bdd, bdd2, zdd, zdd2, res, call>>

\* ZDD::new_from(graph): a ZDD holding the graph, then reduce.
ZddNewFrom(n) ==
    /\ Running
    /\ zdd.graph = 0
    /\ \E order \in Perms(all_nodes(heap, n)) :
         \E vlist \in VLists(zdd_vlist_keys(heap, n)) :
           LET r == zdd_reduce(heap, n, order, vlist)
           IN /\ heap' = r.heap
              /\ zdd' = [graph |-> r.graph, reduced |-> ~r.panic]
              /\ last' = [Op("zdd_new_from", n, 0, r.graph, r.panic, FALSE)
                            EXCEPT !.byid = ById(r.node, r.index, n), !.run = r.walk]
    /\ nops' = nops + 1
    /\ UNCHANGED <<nraw, bdd, bdd2, zdd2, res, call>>

\* ReducedDecisionDiagram::reduce called on the ZDD value.
ZddReduce ==
    /\ Running
    /\ nops < MaxOps
    /\ zdd.graph # 0
    /\ \E order \in Perms(all_nodes(heap, zdd.graph)) :
         \E vlist \in VLists(zdd_vlist_keys(heap, zdd.graph)) :
           LET r == zdd_reduce(heap, zdd.graph, order, vlist)
           IN /\ heap' = r.heap
              /\ zdd' = [graph |-> r.graph, reduced |-> ~r.panic]
              /\ last' = [Op("zdd_reduce", zdd.graph, 0, r.graph, r.panic, zdd.reduced)
                            EXCEPT !.byid = ById(r.node, r.index, zdd.graph), !.run = r.walk]
    /\ nops' = nops + 1
    /\ UNCHANGED <<nraw, bdd, bdd2, zdd2, res, call>>

\* ZDD::new_from(graph) for the value that becomes `other` of apply / compose.
ZddNewOther(n) ==
    /\ Running
    /\ zdd.graph # 0
    /\ zdd2.graph = 0
    /\ \E order \in Perms(all_nodes(heap, n)) :
         \E vlist \in VLists(zdd_vlist_keys(heap, n)) :
           LET r == zdd_reduce(heap, n, order, vlist)
           IN /\ heap' = r.heap
              /\ zdd2' = [graph |-> r.graph, reduced |-> ~r.panic]
              /\ last' = [Op("zdd_new_from", n, 0, r.graph, r.panic, FALSE)
                            EXCEPT !.byid = ById(r.node, r.index, n), !.run = r.walk]
    /\ nops' = nops + 1
    /\ UNCHANGED <<nraw, bdd, bdd2, zdd, res, call>>

\* ZDD apply: self.apply(op, unit, other) = ZDD::new_from(aux(...)).
ZddApply(op, unit) ==
    /\ Running
    /\ zdd.graph # 0 /\ zdd2.graph # 0
    /\ res.graph = 0
    /\ LET raws == {apply_raw(heap, op, unit, zdd.graph, zdd2.graph, o1, o2) :
                       o1 \in Perms(all_nodes(heap, zdd.graph)),
                       o2 \in Perms(all_nodes(heap, zdd2.graph))}
       IN \E raw \in raws :
            \E order \in Perms(all_nodes(raw.heap, raw.u)) :
              \E vlist \in VLists(zdd_vlist_keys(raw.heap, raw.u)) :
                LET r == zdd_reduce(raw.heap, raw.u, order, vlist)
                IN /\ heap' = r.heap
                   /\ res' = [graph |-> r.graph, reduced |-> ~r.panic]
                   /\ last' = [Op("zdd_apply", zdd.graph, zdd2.graph, r.graph, r.panic, FALSE)
                                 EXCEPT !.raw = raw.u, !.fn = op, !.unit = unit,
                                        !.run = [calls |-> raw.calls, maxdepth |-> raw.maxdepth,
                                                 made |-> raw.made, dup |-> raw.dup, same |-> raw.same,
                                                 keys |-> raw.keys, known |-> raw.known,
                                                 pairs |-> raw.pairs,
                                                 past_unit |-> raw.past_unit,
                                                 off_unit |-> raw.off_unit,
                                                 minvar |-> raw.minvar, termop |-> raw.termop]]
    /\ nops' = nops + 1
    /\ UNCHANGED <<nraw, bdd, bdd2, zdd, zdd2, call>>

\* ZDD apply called twice on the same operands with the same operator, first
\* with unit = true, then with unit = false.  The outcomes of the first call
\* are collected over its iteration orders before the second call is made.
ZddApplyUnits(op) ==
    /\ Running
    /\ zdd.graph # 0 /\ zdd2.graph # 0
    /\ last.op # "zdd_apply_units"
    /\ LET raws == {apply_raw(heap, op, TRUE, zdd.graph, zdd2.graph, o1, o2) :
                       o1 \in Perms(all_nodes(heap, zdd.graph)),
                       o2 \in Perms(all_nodes(heap, zdd2.graph))}
           firsts == UNION {{LET r == zdd_reduce(raw.heap, raw.u, order, vlist)
                             IN [raw |-> raw.u, heap |-> r.heap, graph |-> r.graph,
                                 panic |-> r.panic] :
                                order \in Perms(all_nodes(raw.heap, raw.u)),
                                vlist \in VLists(zdd_vlist_keys(raw.heap, raw.u))} : raw \in raws}
       IN \E first \in firsts :
            LET raws2 == {apply_raw(first.heap, op, FALSE, zdd.graph, zdd2.graph, o1, o2) :
                            o1 \in Perms(all_nodes(heap, zdd.graph)),
                            o2 \in Perms(all_nodes(heap, zdd2.graph))}
            IN \E raw2 \in raws2 :
                 \E order2 \in Perms(all_nodes(raw2.heap, raw2.u)) :
                   \E vlist2 \in VLists(zdd_vlist_keys(raw2.heap, raw2.u)) :
                     LET r2 == zdd_reduce(raw2.heap, raw2.u, order2, vlist2)
                     IN /\ heap' = r2.heap
                        /\ last' = [Op("zdd_apply_units", zdd.graph, zdd2.graph, first.graph,
                                       first.panic \/ r2.panic, FALSE)
                                      EXCEPT !.raw = first.raw, !.fn = op,
                                             !.run = [alt |-> r2.graph, raw_alt |-> raw2.u]]
    /\ nops' = nops + 1
    /\ UNCHANGED <<nraw, bdd, bdd2, zdd, zdd2, res, call>>

\* ZDD compose: zdd.rs:182-184 is unimplemented!(), which panics.
ZddCompose(at) ==
    /\ Running
    /\ zdd.graph # 0 /\ zdd2.graph # 0
    /\ last' = [Op("zdd_compose", zdd.graph, zdd2.graph, 0, TRUE, FALSE) EXCEPT !.at = at]
    /\ nops' = nops + 1
    /\ UNCHANGED <<heap, nraw, bdd, bdd2, zdd, zdd2, res, call>>

\* Node::new_var(1, n, n) over the graph built last: a raw graph is any
\* finite acyclic graph, it may repeat a variable and share a child.  The
\* vertices are stacked over one true terminal and over stacked vertices.
Stack ==
    /\ nops = 0
    /\ nraw >= 1 /\ nraw < MaxRawNodes
    /\ heap[1].b
    /\ \A m \in 2 .. nraw : heap[m].tag = "Var" /\ heap[m].low = m - 1 /\ heap[m].high = m - 1
    /\ heap' = new_var(heap, 1, nraw, nraw).heap
    /\ nraw' = nraw + 1
    /\ UNCHANGED <<bdd, bdd2, zdd, zdd2, res, call, last, nops>>

\* satisfy_all() is called on the raw graph n; checked tells whether the build
\* carries overflow checks.  The call of linear_count on n is entered.
SatisfyAll(n, checked) ==
    /\ Running
    /\ call.root = 0
    /\ call' = [root |-> n, checked |-> checked, count |-> <<>>, ret |-> usize_of(0),
                stack |-> <<Frame(n)>>]
    /\ nops' = nops + 1
    /\ UNCHANGED <<heap, nraw, bdd, bdd2, zdd, zdd2, res, last>>

\* linear_count, one step of the innermost call: it returns the cached count
\* or the terminal's value, or calls itself on low, then on high, then adds,
\* caches and returns.  The value the outermost call returns is the result of
\* satisfy_all; satisfy_one() is called on the same graph then.
LinearCount ==
    /\ Running
    /\ call.stack # <<>>
    /\ LET top == call.stack[Len(call.stack)]
           node == top.node
           callers == SubSeq(call.stack, 1, Len(call.stack) - 1)
           c == usize_add(top.a, call.ret)
           returns == top.pc = "high" \/ node \in DOMAIN call.count \/ heap[node].tag = "Bool"
           value == IF top.pc = "high" THEN c.value
                    ELSE IF node \in DOMAIN call.count THEN cached_count(call.count, node)
                    ELSE usize_of(b2u(heap[node].b))
       IN IF top.pc = "high" /\ c.overflow /\ call.checked
          THEN /\ call' = [call EXCEPT !.stack = <<>>]
               /\ last' = [Op("satisfy", call.root, 0, 0, TRUE, FALSE)
                             EXCEPT !.run = [one |-> FALSE, all |-> usize_of(0),
                                             checked |-> call.checked]]
          ELSE IF returns
          THEN /\ call' = [call EXCEPT !.stack = callers, !.ret = value,
                                       !.count = IF top.pc = "high" THEN Put(@, node, value) ELSE @]
               /\ IF callers = <<>>
                  THEN last' = [Op("satisfy", call.root, 0, 0, FALSE, FALSE)
                                  EXCEPT !.run = [one |-> satisfy_one(heap, call.root),
                                                  all |-> value, checked |-> call.checked]]
                  ELSE UNCHANGED last
          ELSE IF top.pc = "enter"
          THEN /\ call' = [call EXCEPT !.stack = Append(Append(callers, [top EXCEPT !.pc = "low"]),
                                                        Frame(heap[node].low))]
               /\ UNCHANGED last
          ELSE /\ call' = [call EXCEPT !.stack = Append(Append(callers,
                                                               [top EXCEPT !.pc = "high", !.a = call.ret]),
                                                        Frame(heap[node].high))]
               /\ UNCHANGED last
    /\ UNCHANGED <<heap, nraw, bdd, bdd2, zdd, zdd2, res, nops>>

\* len() on the raw graph n.
NodeLen(n) ==
    /\ Running
    /\ last' = [Op("len", n, 0, 0, FALSE, FALSE) EXCEPT !.run = [len |-> len(heap, n)]]
    /\ nops' = nops + 1
    /\ UNCHANGED <<heap, nraw, bdd, bdd2, zdd, zdd2, res, call>>

\* write_as_gv(sink) on the raw graph n, by node.rs (dd = FALSE) or by dd.rs;
\* the sink fails at its fail_at-th write, never when fail_at = 0.
WriteAsGv(n, dd) ==
    /\ Running
    /\ len(heap, n) <= MaxExportNodes
    /\ \E o1, o2, o3 \in Perms(all_nodes(heap, n)) :
         LET writes == IF dd THEN dd_gv_writes(heap, o1, o2, o3) ELSE gv_writes(heap, o1, o2, o3)
         IN \E fail_at \in 0 .. Len(writes) :
              LET r == write_as_gv(writes, fail_at)
              IN last' = [Op("write_as_gv", n, 0, 0, FALSE, FALSE)
                            EXCEPT !.run = [result |-> r.result, written |-> r.sink.written,
                                            calls |-> r.sink.calls, fail_at |-> fail_at,
                                            dd |-> dd]]
    /\ nops' = nops + 1
    /\ UNCHANGED <<heap, nraw, bdd, bdd2, zdd, zdd2, res, call>>

\* to_bdd called twice on the same raw graph n: two runs of BDD reduce that
\* differ only in the order the HashSet of all_nodes is iterated.
ToBddTwice(n) ==
    /\ Running
    /\ \E vlist, vlist2 \in VLists(bdd_vlist_keys(heap, n)) :
         LET r == bdd_reduce(heap, n, vlist)
             r2 == bdd_reduce(r.heap, n, vlist2)
         IN /\ heap' = r2.heap
            /\ last' = [Op("to_bdd_twice", n, 0, r.graph, r.panic \/ r2.panic, FALSE)
                          EXCEPT !.run = [alt |-> r2.graph]]
    /\ nops' = nops + 1
    /\ UNCHANGED <<nraw, bdd, bdd2, zdd, zdd2, res, call>>

\* ZDD::new_from called twice on the same raw graph n: two runs of ZDD reduce
\* that differ only in the iteration orders.
ZddNewFromTwice(n) ==
    /\ Running
    /\ \E order, order2 \in Perms(all_nodes(heap, n)) :
         \E vlist, vlist2 \in VLists(zdd_vlist_keys(heap, n)) :
           LET r == zdd_reduce(heap, n, order, vlist)
               r2 == zdd_reduce(r.heap, n, order2, vlist2)
           IN /\ heap' = r2.heap
              /\ last' = [Op("zdd_new_from_twice", n, 0, r.graph, r.panic \/ r2.panic, FALSE)
                            EXCEPT !.run = [alt |-> r2.graph]]
    /\ nops' = nops + 1
    /\ UNCHANGED <<nraw, bdd, bdd2, zdd, zdd2, res, call>>

Build ==
    \/ \E b \in BOOLEAN : NewConstant(b)
    \/ \E v \in 1 .. MaxVar, l, hi \in 1 .. nraw : NewVar(v, l, hi)

\* The diagram operations take the graph the fixture built last.
NextBdd ==
    \/ Build
    \/ nraw > 0 /\ ToBdd(nraw)
    \/ BddReduce

SpecBdd == Init /\ [][NextBdd]_vars

NextZdd ==
    \/ Build
    \/ nraw > 0 /\ ZddNewFrom(nraw)
    \/ ZddReduce

SpecZdd == Init /\ [][NextZdd]_vars

\* reduce on raw graphs of at most MaxLevelNodes vertices whose variables never
\* decrease from parent to child, a child repeating the variable of its parent
\* included.
NextLevels ==
    \/ Build
    \/ \E v \in 1 .. MaxVar, l, hi \in 1 .. nraw : NewVarSame(v, l, hi)
    \/ nraw > 0 /\ nraw <= MaxLevelNodes /\ nops = 0 /\ ToBdd(nraw)
    \/ nraw > 0 /\ nraw <= MaxLevelNodes /\ nops = 0 /\ ZddNewFrom(nraw)

SpecLevels == Init /\ [][NextLevels]_vars

\* apply and compose on two ZDD values made from graphs of at most
\* MaxOperandNodes raw vertices.
NextZddOps ==
    \/ Build
    \/ nraw > 0 /\ nraw <= MaxOperandNodes /\ ZddNewFrom(nraw)
    \/ \E n \in 1 .. nraw : ZddNewOther(n)
    \/ \E op \in Operators, unit \in BOOLEAN : ZddApply(op, unit)
    \/ \E at \in 1 .. MaxVar : ZddCompose(at)

SpecZddOps == Init /\ [][NextZddOps]_vars

\* BDD apply on two BDD values made from graphs of at most MaxOperandNodes
\* raw vertices.
NextBddOps ==
    \/ Build
    \/ nraw > 0 /\ nraw <= MaxOperandNodes /\ ToBdd(nraw)
    \/ \E n \in 1 .. nraw : ToBddOther(n)
    \/ \E op \in Operators, unit \in BOOLEAN : BddApply(op, unit)

SpecBddOps == Init /\ [][NextBddOps]_vars

\* The ids given to the nodes of two graphs: by build_indexer on raw graphs of
\* at most MaxOperandNodes vertices, and by BDD apply on two BDD values.
NextIndex ==
    \/ Build
    \/ \E n \in 1 .. nraw : nraw <= MaxOperandNodes /\ nops = 0 /\ BuildIndexer(nraw, n)
    \/ nraw > 0 /\ nraw <= MaxOperandNodes /\ ToBdd(nraw)
    \/ \E n \in 1 .. nraw : ToBddOther(n)
    \/ \E op \in Operators, unit \in BOOLEAN : BddApply(op, unit)

SpecIndex == Init /\ [][NextIndex]_vars

\* ZDD apply under both values of unit, on two ZDD values made from a raw graph
\* of at most MaxOperandNodes vertices.
NextUnits ==
    \/ Build
    \/ nraw > 0 /\ nraw <= MaxOperandNodes /\ ZddNewFrom(nraw)
    \/ \E n \in 1 .. nraw : ZddNewOther(n)
    \/ \E op \in Operators : ZddApplyUnits(op)

SpecUnits == Init /\ [][NextUnits]_vars

\* The constructors of the two diagram types, each on the raw graph built last.
NextReduce ==
    \/ Build
    \/ nraw > 0 /\ nops = 0 /\ BddNewFrom(nraw)
    \/ nraw > 0 /\ nops = 0 /\ ToBdd(nraw)
    \/ nraw > 0 /\ nops = 0 /\ ZddNewFrom(nraw)

SpecReduce == Init /\ [][NextReduce]_vars

\* The counting queries on raw graphs.
NextCount ==
    \/ Build
    \/ Stack
    \/ \E checked \in BOOLEAN : nraw > 0 /\ SatisfyAll(nraw, checked)
    \/ LinearCount

SpecCount == Init /\ [][NextCount]_vars

\* len on raw graphs, every node taken as a root.
NextNode ==
    \/ Build
    \/ \E n \in 1 .. nraw : nops = 0 /\ NodeLen(n)

SpecNode == Init /\ [][NextNode]_vars

\* Export of the raw graphs of at most MaxExportNodes vertices.
NextExport ==
    \/ Build
    \/ \E dd \in BOOLEAN : nraw > 0 /\ nraw <= MaxExportNodes /\ nops = 0 /\ WriteAsGv(nraw, dd)

SpecExport == Init /\ [][NextExport]_vars

\* Two runs of reduce on one raw graph of at most MaxOperandNodes vertices.
NextOrder ==
    \/ Build
    \/ nraw > 0 /\ nraw <= MaxOperandNodes /\ nops = 0 /\ ToBddTwice(nraw)
    \/ nraw > 0 /\ nraw <= MaxOperandNodes /\ nops = 0 /\ ZddNewFromTwice(nraw)

SpecOrder == Init /\ [][NextOrder]_vars

Next ==
    \/ Build
    \/ \E n \in 1 .. nraw : ToBdd(n)
    \/ BddReduce
    \/ \E n \in 1 .. nraw : ToBddOther(n)
    \/ \E op \in Operators, unit \in BOOLEAN : BddApply(op, unit)
    \/ \E n \in 1 .. nraw : ZddNewFrom(n)
    \/ ZddReduce
    \/ \E n \in 1 .. nraw : ZddNewOther(n)
    \/ \E op \in Operators, unit \in BOOLEAN : ZddApply(op, unit)
    \/ \E at \in 1 .. MaxVar : ZddCompose(at)
    \/ Stack
    \/ \E n \in 1 .. nraw, checked \in BOOLEAN : SatisfyAll(n, checked)
    \/ LinearCount
    \/ \E n \in 1 .. nraw : NodeLen(n)
    \/ \E n \in 1 .. nraw, dd \in BOOLEAN : WriteAsGv(n, dd)
    \/ \E n \in 1 .. nraw : ToBddTwice(n)
    \/ \E n \in 1 .. nraw : ZddNewFromTwice(n)
    \/ \E v \in 1 .. MaxVar, l, hi \in 1 .. nraw : NewVarSame(v, l, hi)
    \/ \E n1, n2 \in 1 .. nraw : BuildIndexer(n1, n2)
    \/ \E op \in Operators : ZddApplyUnits(op)
    \/ \E n \in 1 .. nraw : BddNewFrom(n)

Spec == Init /\ [][Next]_vars


\* ---------------------------------------------------------------- claims
BddReduced == last.op \in {"to_bdd", "bdd_reduce"}
ZddReduced == last.op \in {"zdd_new_from", "zdd_reduce"}

SameFunction(h, a, b) == \A x \in Assignments : Eval(h, a, x) = Eval(h, b, x)

\* C1: BDD reduce preserves the function: on a strictly ordered input the
\* reduce returns, and at every assignment the root it stores evaluates to the
\* value the input root evaluates to.
C1_BddReducePreservesFunction ==
    (BddReduced /\ StrictlyOrdered(heap, last.in)) =>
        /\ ~last.panic
        /\ \A x \in Assignments : Eval(heap, last.out, x) = Eval(heap, last.in, x)

\* A raw graph of five nodes, not constant, whose reduce merged and eliminated.
C1_Witness ==
    /\ last.op = "to_bdd" /\ ~last.panic
    /\ len(heap, last.in) = 5
    /\ len(heap, last.out) = 3
    /\ \E x, y \in Assignments : Eval(heap, last.in, x) # Eval(heap, last.in, y)

\* C5: in the graph of the root stored by BDD reduce no two distinct nodes
\* represent the same function; there is at most one terminal of each value and
\* no two distinct decision vertices agree on (variable, low, high).
C5_BddReduceCanonical ==
    (BddReduced /\ StrictlyOrdered(heap, last.in) /\ ~last.panic) =>
        \A a, b \in all_nodes(heap, last.out) :
            a # b => /\ ~SameFunction(heap, a, b)
                     /\ heap[a] # heap[b]

\* Two distinct decision vertices of equal function in the input were merged.
C5_Witness ==
    /\ last.op = "to_bdd" /\ ~last.panic
    /\ \E a, b \in all_nodes(heap, last.in) :
          /\ a # b /\ heap[a].tag = "Var" /\ heap[b].tag = "Var"
          /\ SameFunction(heap, a, b)
    /\ \E c \in all_nodes(heap, last.out) : heap[c].tag = "Var"

\* C6: after BDD reduce no decision vertex under the stored root has the same
\* node as low and high child.
C6_BddNoRedundantVertex ==
    (BddReduced /\ StrictlyOrdered(heap, last.in) /\ ~last.panic) =>
        \A m \in all_nodes(heap, last.out) :
            heap[m].tag = "Var" => heap[m].low # heap[m].high

\* The input holds a vertex over two separately built terminals of one value.
C6_Witness ==
    /\ last.op = "to_bdd" /\ ~last.panic
    /\ \E m \in all_nodes(heap, last.in) :
          /\ heap[m].tag = "Var"
          /\ heap[m].low # heap[m].high
          /\ heap[heap[m].low].tag = "Bool" /\ heap[heap[m].high].tag = "Bool"
          /\ heap[heap[m].low].b = heap[heap[m].high].b
    /\ \E c \in all_nodes(heap, last.out) : heap[c].tag = "Var"

\* C2: ZDD reduce preserves the represented family: on a strictly ordered input
\* the set of root-to-true paths (each the set of variables taken high) of the
\* stored root equals that of the input root, for every enumeration order.
C2_ZddReducePreservesPaths ==
    (ZddReduced /\ StrictlyOrdered(heap, last.in)) =>
        /\ ~last.panic
        /\ Paths(heap, last.out) = Paths(heap, last.in)

\* C7: after ZDD::new_from / ZDD reduce no decision vertex under the stored
\* root has a false terminal as its high child, for every enumeration order.
C7_ZddNoFalseHigh ==
    (ZddReduced /\ StrictlyOrdered(heap, last.in) /\ ~last.panic) =>
        \A m \in all_nodes(heap, last.out) :
            heap[m].tag = "Var" =>
                ~(heap[heap[m].high].tag = "Bool" /\ ~heap[heap[m].high].b)

\* The raw graph D(v, false, false).
IsFalseFalse(h, n) ==
    /\ h[n].tag = "Var"
    /\ h[h[n].low].tag = "Bool" /\ ~h[h[n].low].b
    /\ h[h[n].high].tag = "Bool" /\ ~h[h[n].high].b

\* C8: D(v, false, false) reduces to the false terminal itself under the BDD
\* rule and under the ZDD rule: node count 1, a terminal root, satisfy_one false.
C8_FalseFalseReducesToFalse ==
    (last.op \in {"to_bdd", "zdd_new_from"} /\ IsFalseFalse(heap, last.in)) =>
        /\ ~last.panic
        /\ len(heap, last.out) = 1
        /\ heap[last.out].tag = "Bool"
        /\ ~satisfy_one(heap, last.out)

\* C9: reducing an already reduced diagram yields a node-for-node isomorphic
\* diagram, for the BDD and for the ZDD rule.
C9_ReduceIdempotent ==
    (last.op \in {"bdd_reduce", "zdd_reduce"} /\ last.reduced) =>
        /\ ~last.panic
        /\ Isomorphic(heap, last.out, last.in)

\* C3: apply correctness: for operands made by ZDD::new_from, every operator,
\* every unit and every assignment x, the diagram apply returns evaluates at x
\* to op(A(x), B(x)).
C3_ApplyCorrect ==
    (last.op = "zdd_apply" /\ StrictlyOrdered(heap, last.in) /\ StrictlyOrdered(heap, last.in2)) =>
        /\ ~last.panic
        /\ \A x \in Assignments :
              Eval(heap, last.out, x) = last.fn[<<Eval(heap, last.in, x), Eval(heap, last.in2, x)>>]

\* The assignment x with the value of variable v replaced by the value b.
Replace(x, v, b) == IF b THEN x \cup {v} ELSE x \ {v}

\* C4: compose correctness: compose(A, B, v) returns a diagram that at every
\* assignment x evaluates to A at x with the value of v replaced by B(x).
C4_ComposeCorrect ==
    last.op = "zdd_compose" =>
        /\ ~last.panic
        /\ \A x \in Assignments :
              Eval(heap, last.out, x)
                  = Eval(heap, last.in, Replace(x, last.at, Eval(heap, last.in2, x)))

\* C10: on strictly ordered diagrams none of reduce, apply and compose aborts.
C10_NoOperationAborts ==
    (/\ last.op \in {"to_bdd", "bdd_reduce", "zdd_new_from", "zdd_reduce", "zdd_apply", "zdd_compose"}
     /\ StrictlyOrdered(heap, last.in)
     /\ last.in2 # 0 => StrictlyOrdered(heap, last.in2)) =>
        ~last.panic

\* C11: BDD apply terminates: for every pair of BDDs, every operator and every
\* unit the helper of BDD::apply makes finitely many calls and returns a node:
\* the call stack is never exhausted, no call aborts, and a node is returned.
C11_BddApplyTerminates ==
    last.op = "bdd_apply" =>
        /\ ~last.run.overflow
        /\ ~last.panic
        /\ last.out # 0

\* The variables of the decision vertices under n.
VarsOf(h, n) == {h[m].var_index : m \in {k \in all_nodes(h, n) : h[k].tag = "Var"}}

\* C12: ZDD apply terminates with bounded depth: on strictly ordered operands
\* the helper returns a node, no recursive call is made on the very pair of its
\* caller (at least one operand is replaced by its child), and the call stack
\* never holds more than (number of variables of A and B) + 1 frames.
C12_ZddApplyDepthBounded ==
    (last.op = "zdd_apply" /\ StrictlyOrdered(heap, last.in) /\ StrictlyOrdered(heap, last.in2)) =>
        /\ last.raw # 0
        /\ ~last.run.same
        /\ last.run.maxdepth <= Cardinality(VarsOf(heap, last.in) \cup VarsOf(heap, last.in2)) + 1

\* Two operands over two variables, of different roots, whose apply reached
\* the depth of the bound.
C12_Witness ==
    /\ last.op = "zdd_apply"
    /\ StrictlyOrdered(heap, last.in) /\ StrictlyOrdered(heap, last.in2)
    /\ Cardinality(VarsOf(heap, last.in) \cup VarsOf(heap, last.in2)) = 2
    /\ heap[last.in].tag = "Var" /\ heap[last.in2].tag = "Var"
    /\ heap[last.in].var_index # heap[last.in2].var_index
    /\ last.run.maxdepth = 3

\* Natural numbers of any size, as normalised sequences of limbs.
Limb(a, i) == IF i <= Len(a) THEN a[i] ELSE 0

RECURSIVE BigAddFrom(_, _, _, _)
BigAddFrom(a, b, i, carry) ==
    IF i > Len(a) /\ i > Len(b) THEN (IF carry = 0 THEN <<>> ELSE <<carry>>)
    ELSE LET sum == Limb(a, i) + Limb(b, i) + carry
         IN <<sum % LimbBase>> \o BigAddFrom(a, b, i + 1, sum \div LimbBase)

BigAdd(a, b) == BigAddFrom(a, b, 1, 0)

RECURSIVE BigOf(_)
BigOf(u) == IF u = <<>> THEN <<>>
            ELSE IF u[Len(u)] = 0 THEN BigOf(SubSeq(u, 1, Len(u) - 1)) ELSE u

\* The number of root-to-true-terminal paths of every node of the heap: 1 for
\* a true terminal, 0 for a false one, count(low) + count(high) for a decision
\* vertex (children are allocated before their parents).
RECURSIVE PathCounts(_, _)
PathCounts(h, k) ==
    IF k = 0 THEN <<>>
    ELSE LET below == PathCounts(h, k - 1)
         IN Append(below,
                   IF h[k].tag = "Bool" THEN (IF h[k].b THEN <<1>> ELSE <<>>)
                   ELSE BigAdd(below[h[k].low], below[h[k].high]))

PathCount(h, n) == PathCounts(h, n)[n]

\* C13: satisfy_one and satisfy_all are consistent on every finite acyclic
\* graph: satisfy_all returns, and satisfy_one is true exactly when the count
\* is greater than 0.
C13_SatisfyConsistent ==
    last.op = "satisfy" =>
        /\ ~last.panic
        /\ last.run.one = (last.run.all # usize_of(0))

\* C14: satisfy_all returns the number of root-to-true-terminal paths of the
\* graph, shared nodes included.
C14_SatisfyAllCountsPaths ==
    last.op = "satisfy" =>
        /\ ~last.panic
        /\ BigOf(last.run.all) = PathCount(heap, last.in)

\* C15: ZDD reduction preserves the solution count and satisfiability: for a
\* raw graph n, ZDD::new_from(n).satisfy_all() equals n.satisfy_all() and
\* ZDD::new_from(n).satisfy_one() equals n.satisfy_one().
C15_ZddPreservesCount ==
    (last.op = "zdd_new_from" /\ StrictlyOrdered(heap, last.in)) =>
        /\ ~last.panic
        /\ satisfy_all(heap, last.out, FALSE).c = satisfy_all(heap, last.in, FALSE).c
        /\ satisfy_one(heap, last.out) = satisfy_one(heap, last.in)

\* The nodes reachable from the nodes of S, by address: the least set that
\* holds S and the two children of each of its decision vertices.
RECURSIVE Closure(_, _)
Closure(h, S) ==
    LET T == S \cup {h[m].low : m \in {k \in S : h[k].tag = "Var"}}
               \cup {h[m].high : m \in {k \in S : h[k].tag = "Var"}}
    IN IF T = S THEN S ELSE Closure(h, T)

\* C16: len() counts nodes by reference identity: the result is the number of
\* identity-distinct nodes reachable from the root, the root included; a node
\* reached through several parents counts once, two nodes of equal contents
\* count as two.
C16_LenCountsByIdentity ==
    last.op = "len" =>
        /\ last.run.len = Cardinality(Closure(heap, {last.in}))
        /\ ((heap[last.in].tag = "Var" /\ heap[last.in].low = heap[last.in].high
              /\ heap[heap[last.in].low].tag = "Bool") => last.run.len = 2)
        /\ ((heap[last.in].tag = "Var" /\ heap[last.in].low # heap[last.in].high
              /\ heap[heap[last.in].low].tag = "Bool" /\ heap[heap[last.in].high].tag = "Bool")
               => last.run.len = 3)

\* A vertex over two separately built false terminals, and above it a vertex
\* that reaches one of them along two paths: four nodes.
C16_Witness ==
    /\ last.op = "len"
    /\ last.run.len = 4
    /\ heap[last.in].tag = "Var"
    /\ \E m \in all_nodes(heap, last.in) :
          /\ m # last.in
          /\ heap[m].tag = "Var"
          /\ heap[m].low # heap[m].high
          /\ heap[heap[m].low] = Bool(FALSE) /\ heap[heap[m].high] = Bool(FALSE)
          /\ heap[last.in].low = m
          /\ heap[last.in].high = heap[m].low

\* A terminal of value b is reachable from n.
ReachesTerminal(h, n, b) == \E m \in all_nodes(h, n) : h[m] = Bool(b)

Written(rec) == \E k \in 1 .. Len(last.run.written) : last.run.written[k] = rec

\* C17 as stated: export always writes both terminal records: for every
\* diagram a write_as_gv that returns Ok has written the record with id 0 and
\* the record with id 1.
C17_ExportWritesBothTerminals ==
    (last.op = "write_as_gv" /\ last.run.result = "Ok") =>
        /\ Written(GvTerminal(0))
        /\ Written(GvTerminal(1))

\* C17 as amended: the write_as_gv of node.rs writes the record of a terminal
\* value exactly when a terminal of that value is reachable from the root; the
\* write_as_gv of dd.rs writes both records.
C17_ExportWritesReachableTerminals ==
    (last.op = "write_as_gv" /\ last.run.result = "Ok") =>
        \A b \in BOOLEAN :
            Written(GvTerminal(b2u(b))) <=> (last.run.dd \/ ReachesTerminal(heap, last.in, b))

\* node.rs exported a graph with a decision vertex that reaches no true
\* terminal: the record with id 1 is missing.
C17_Witness ==
    /\ last.op = "write_as_gv" /\ last.run.result = "Ok" /\ ~last.run.dd
    /\ heap[last.in].tag = "Var"
    /\ ~ReachesTerminal(heap, last.in, TRUE)
    /\ Written(GvTerminal(0)) /\ ~Written(GvTerminal(1))

\* C18: a write failure is propagated without retry: when a write to the sink
\* fails, write_as_gv returns the failure, makes no further write after the
\* failed one, and does not return success.
C18_ExportPropagatesFailure ==
    (last.op = "write_as_gv" /\ last.run.fail_at # 0 /\ last.run.calls >= last.run.fail_at) =>
        /\ last.run.result = "Err"
        /\ last.run.calls = last.run.fail_at
        /\ Len(last.run.written) = last.run.fail_at - 1

\* The sink took the low edge of the root of a graph of three nodes and failed
\* at its high edge, with the footer still to write.
C18_Witness ==
    /\ last.op = "write_as_gv"
    /\ len(heap, last.in) = 3
    /\ last.run.fail_at = 6
    /\ last.run.result = "Err"
    /\ Len(last.run.written) = 5
    /\ last.run.written[5][1] = "edge" /\ last.run.written[5][4] # "black"

\* C19: root selection in reduce: the node stored as the new root is the node
\* the id-to-node map holds under the id the node-to-id map holds for the
\* input root, in BDD reduce and in ZDD reduce, also when the input root was
\* eliminated and when no vertex was staged.
C19_RootByIdOfInputRoot ==
    (/\ last.op \in {"to_bdd", "bdd_reduce", "zdd_new_from", "zdd_reduce"}
     /\ StrictlyOrdered(heap, last.in)) =>
        /\ ~last.panic
        /\ last.byid # 0
        /\ last.out = last.byid

\* C20: order independence of reduce: two runs of reduce on the same input
\* that differ only in the order the reachable nodes are enumerated yield
\* node-for-node isomorphic diagrams, for BDD reduce and for ZDD reduce.
C20_ReduceOrderIndependent ==
    (last.op \in {"to_bdd_twice", "zdd_new_from_twice"} /\ StrictlyOrdered(heap, last.in)) =>
        /\ ~last.panic
        /\ Isomorphic(heap, last.out, last.run.alt)

\* The variables never decrease along the paths from n: the ordering the data
\* model asks for, which lets a child repeat the variable of its parent.
Ordered(h, n) ==
    \A m \in all_nodes(h, n) :
        h[m].tag = "Var" =>
            \A c \in {h[m].low, h[m].high} : h[c].tag = "Bool" \/ h[c].var_index >= h[m].var_index

\* C21 as stated: children before parents in reduce.  For every input whose
\* variables never decrease along a path, whenever BDD reduce or ZDD reduce
\* examines a vertex both its children already hold their final ids; no key is
\* made from the id a child was given before the levels were walked.
C21_ChildrenBeforeParents ==
    (last.op \in {"to_bdd", "zdd_new_from"} /\ Ordered(heap, last.in)) =>
        ~last.run.early

\* C21, amended: the same for every input whose variables strictly increase
\* along every path.
C21_ChildrenBeforeParentsStrict ==
    (last.op \in {"to_bdd", "zdd_new_from"} /\ StrictlyOrdered(heap, last.in)) =>
        ~last.run.early

\* A strictly ordered graph with a decision vertex under a decision vertex
\* was reduced and both were staged.
C21_Witness ==
    /\ last.op \in {"to_bdd", "zdd_new_from"}
    /\ StrictlyOrdered(heap, last.in)
    /\ heap[last.in].tag = "Var"
    /\ \E c \in {heap[last.in].low, heap[last.in].high} : heap[c].tag = "Var"
    /\ last.run.staged >= 2
    /\ ~last.panic

\* C22: merge by equal key in reduce.  After every level of BDD reduce and of
\* ZDD reduce, two vertices staged at that level hold the same id exactly when
\* their keys (id(low), id(high)) are equal and one vertex was built per
\* distinct key; no id is allocated twice, and none is a terminal id 0 or 1.
C22_MergeByEqualKey ==
    (last.op \in {"to_bdd", "zdd_new_from"} /\ ~last.panic) =>
        /\ last.run.merged
        /\ \A i, j \in 1 .. Len(last.run.ids) : last.run.ids[i] = last.run.ids[j] => i = j
        /\ \A i \in 1 .. Len(last.run.ids) : last.run.ids[i] \notin {0, 1}

\* Two vertices of one level were staged under the same key and joined, and a
\* level above them allocated a further id.
C22_Witness ==
    /\ last.op = "zdd_new_from"
    /\ ~last.panic
    /\ last.run.staged = 3
    /\ last.run.built = 2
    /\ Len(last.run.ids) = 2

\* C23: apply memoization.  In one ZDD apply, a node is built at most once for
\* each key (id(v1), id(v2)): no key is stored twice, as many keys are stored
\* as nodes were built, and no more nodes are built than there are pairs of
\* ids of A's and B's reachable nodes.
C23_ApplyMemoized ==
    (last.op = "zdd_apply" /\ StrictlyOrdered(heap, last.in) /\ StrictlyOrdered(heap, last.in2)) =>
        /\ ~last.run.dup
        /\ last.run.made = last.run.keys
        /\ last.run.made <= last.run.pairs

\* An apply in which a key was asked for again after its node had been built:
\* more calls than nodes built.
C23_Witness ==
    /\ last.op = "zdd_apply"
    /\ StrictlyOrdered(heap, last.in) /\ StrictlyOrdered(heap, last.in2)
    /\ heap[last.in].tag = "Var"
    /\ last.run.made >= 2
    /\ last.run.calls > last.run.made

\* C24: apply short-circuit.  When an operand of a pair is a terminal whose
\* value is unit, the pair's result is the unit terminal at once: ZDD apply
\* makes no call on the children of the other operand, and the node it returns
\* for a pair of terminals has the value unit.
C24_ApplyShortCircuit ==
    (last.op = "zdd_apply" /\ StrictlyOrdered(heap, last.in) /\ StrictlyOrdered(heap, last.in2)) =>
        /\ ~last.run.past_unit
        /\ ~last.run.off_unit

\* C25: branch selection keeps the raw result of ZDD apply ordered.  Every
\* decision vertex built for a pair carries the least variable of the pair's
\* non-terminal operands; when both operands are strictly ordered, so is the
\* raw result (before reduce); for a pair of terminals the node built is the
\* terminal op(v1, v2).
C25_ApplyRawOrdered ==
    (last.op = "zdd_apply" /\ StrictlyOrdered(heap, last.in) /\ StrictlyOrdered(heap, last.in2)) =>
        /\ last.raw # 0
        /\ last.run.minvar
        /\ last.run.termop
        /\ StrictlyOrdered(heap, last.raw)

\* The operands are decision vertices of different variables, the second
\* carrying the smaller one, and the raw result has a vertex under its root.
C25_Witness ==
    /\ last.op = "zdd_apply"
    /\ StrictlyOrdered(heap, last.in) /\ StrictlyOrdered(heap, last.in2)
    /\ heap[last.in].tag = "Var" /\ heap[last.in2].tag = "Var"
    /\ heap[last.in2].var_index < heap[last.in].var_index
    /\ heap[last.raw].tag = "Var"
    /\ heap[last.raw].var_index = heap[last.in2].var_index
    /\ \E c \in {heap[last.raw].low, heap[last.raw].high} : heap[c].tag = "Var"

\* The ids index gives to the nodes reachable from the roots: a terminal holds
\* 0 or 1 by its value, a decision vertex an id of at least 2, and two distinct
\* decision vertices hold distinct ids.
IndexerIds(h, index, roots) ==
    LET ns == UNION {all_nodes(h, r) : r \in roots}
    IN /\ \A n \in ns : n \in DOMAIN index
       /\ \A n \in ns : h[n].tag = "Bool" => index[n] = b2u(h[n].b)
       /\ \A n \in ns : h[n].tag = "Var" => index[n] >= 2
       /\ \A n, m \in ns : (h[n].tag = "Var" /\ h[m].tag = "Var" /\ n # m) => index[n] # index[m]

\* C26: indexer ids.  build_indexer, and the index BDD apply builds for its
\* operands, map every terminal to 0 or 1 by its value whatever its identity,
\* every reachable decision vertex to an id >= 2 and distinct decision
\* vertices to distinct ids, also for a node reachable from both roots; so two
\* pairs of operands with one key are the same decision vertices or terminals
\* of equal value.
C26_IndexerIds ==
    last.op \in {"build_indexer", "bdd_apply"} =>
        /\ IndexerIds(heap, last.run.index, {last.in, last.in2})
        /\ \A a, c \in all_nodes(heap, last.in), b, d \in all_nodes(heap, last.in2) :
              (last.run.index[a] = last.run.index[c] /\ last.run.index[b] = last.run.index[d]) =>
                  /\ a = c \/ (heap[a].tag = "Bool" /\ heap[c].tag = "Bool" /\ heap[a].b = heap[c].b)
                  /\ b = d \/ (heap[b].tag = "Bool" /\ heap[d].tag = "Bool" /\ heap[b].b = heap[d].b)

\* build_indexer was given two roots that share a decision vertex, the first
\* holding another decision vertex above it.
C26_Witness ==
    /\ last.op = "build_indexer"
    /\ last.in # last.in2
    /\ heap[last.in].tag = "Var" /\ heap[last.in2].tag = "Var"
    /\ last.in2 \in all_nodes(heap, last.in)

\* C27: the result of ZDD apply does not depend on unit.  For the same
\* operands and operator, apply with unit = true and apply with unit = false
\* both return, and the diagrams they return are isomorphic.
C27_ApplyUnitIndependent ==
    last.op = "zdd_apply_units" =>
        /\ ~last.panic
        /\ Isomorphic(heap, last.out, last.run.alt)

\* C28: reduce never grows a diagram.  For every strictly ordered input, BDD
\* reduce and ZDD reduce return, and the diagram they leave has at most as
\* many nodes (len) as the input graph.
C28_ReduceNeverGrows ==
    ((BddReduced \/ ZddReduced) /\ StrictlyOrdered(heap, last.in)) =>
        /\ ~last.panic
        /\ len(heap, last.out) <= len(heap, last.in)

\* A graph of five nodes was reduced to a BDD of three.
C28_Witness ==
    /\ last.op = "to_bdd" /\ ~last.panic
    /\ StrictlyOrdered(heap, last.in)
    /\ len(heap, last.in) = 5
    /\ len(heap, last.out) = 3

\* C29: every BDD value got from a public constructor is reduced.  The
\* diagram BDD::new_from returns, like the one to_bdd returns, has no decision
\* vertex whose low and high children are the same node, and no two distinct
\* nodes of equal contents.
C29_BddConstructorsReduce ==
    (last.op \in {"bdd_new_from", "to_bdd"} /\ StrictlyOrdered(heap, last.in)) =>
        /\ ~last.panic
        /\ \A m \in all_nodes(heap, last.out) :
              heap[m].tag = "Var" => heap[m].low # heap[m].high
        /\ \A a, b \in all_nodes(heap, last.out) : a # b => heap[a] # heap[b]

====
